---- MODULE Spec2Model ----
(***************************************************************************)
(* libfins: the bulk BCD read (src/fins_01_01_bcd16.c, process_data) and   *)
(* the name-set command (src/fins_26_01.c, finslib_name_set), modelled as  *)
(* a state machine over one Session.  A caller invokes one operation at a  *)
(* time; the operation blocks in XX_finslib_communicate, which is where    *)
(* an action of the model ends and the next one starts.                    *)
(*                                                                         *)
(* fins.h, the area table, the address decoder, the command initialiser,   *)
(* the transaction executor and the BCD codec are not part of the source   *)
(* tree at hand; they are modelled from the specification's description of *)
(* their interface.                                                        *)
(***************************************************************************)
EXTENDS Integers, Sequences, FiniteSets, TLC

VARIABLES
    sockfd,       \* sys->sockfd: "open" or INVALID_SOCKET
    transport,    \* the session's transport kind: "stream" or "datagram"
    sid,          \* sys->sid, the wrapping service-id counter
    entry_sid,    \* sys->sid as it was when the current call was entered
    pc,           \* "idle", "chunk", "await_read", "await_name", "done"
    op,           \* the operation of the current call: "read", "name_set", "none"
    args,         \* the arguments of the current call
    area_ptr,     \* process_data: area_ptr (NoArea before the lookup)
    offset,       \* process_data: offset
    todo,         \* process_data: todo
    chunk_start,  \* process_data: chunk_start
    chunk_length, \* process_data: chunk_length
    data,         \* the caller's output array, Unwritten where never stored
    sent,         \* the commands handed to the transport during this call
    received,     \* what XX_finslib_communicate handed back during this call, in order
    applied,      \* per transport kind, the chunk limit last applied (0: none yet)
    max_read_words, \* the value fins.h gives FINS_MAX_READ_WORDS_SYSWAY in this build
    retval        \* the value returned by the call ("none" while it runs)

vars == << sockfd, transport, sid, entry_sid, pc, op, args, area_ptr, offset, todo,
           chunk_start, chunk_length, data, sent, received, applied,
           max_read_words, retval >>

(***************************************************************************)
(* Bounds of the model.                                                    *)
(***************************************************************************)
\* the largest element count a caller asks for
MaxNum == 5
\* the per-transaction element limit, scaled down (see FINS_MAX_READ_WORDS_SYSWAY)
MaxWords == 2
\* calls start only while the service-id counter is below this
MaxSid == 3

(***************************************************************************)
(* Values.                                                                 *)
(***************************************************************************)
NULL == "NULL"
INVALID_SOCKET == "INVALID_SOCKET"
\* an element of the output array: never stored, or stored with a value
Unwritten == [ w |-> FALSE, v |-> 0 ]
Stored(v) == [ w |-> TRUE, v |-> v ]
NoArea == [ name |-> "", bits |-> 0, low_id |-> 0, high_id |-> 0,
            low_addr |-> 0, area |-> 0, read |-> FALSE ]

FINS_RETVAL_SUCCESS == "FINS_RETVAL_SUCCESS"
FINS_RETVAL_NOT_INITIALIZED == "FINS_RETVAL_NOT_INITIALIZED"
FINS_RETVAL_NOT_CONNECTED == "FINS_RETVAL_NOT_CONNECTED"
FINS_RETVAL_NO_READ_ADDRESS == "FINS_RETVAL_NO_READ_ADDRESS"
FINS_RETVAL_NO_DATA_BLOCK == "FINS_RETVAL_NO_DATA_BLOCK"
FINS_RETVAL_INVALID_READ_ADDRESS == "FINS_RETVAL_INVALID_READ_ADDRESS"
FINS_RETVAL_INVALID_READ_AREA == "FINS_RETVAL_INVALID_READ_AREA"
FINS_RETVAL_BODY_TOO_SHORT == "FINS_RETVAL_BODY_TOO_SHORT"
\* two of the executor's own failure categories: a transport failure and a
\* remote end-code
FINS_RETVAL_RESPONSE_TIMEOUT == "FINS_RETVAL_RESPONSE_TIMEOUT"
FINS_RETVAL_ADDRESS_RANGE_EXCEEDED == "FINS_RETVAL_ADDRESS_RANGE_EXCEEDED"

FINS_DATA_TYPE_BCD16 == "FINS_DATA_TYPE_BCD16"
FINS_DATA_TYPE_SBCD16_1 == "FINS_DATA_TYPE_SBCD16_1"

\* the per-transaction element limit process_data applies.  Its value is set
\* in fins.h and fixed for a build; the loop only needs it to be at least 1.
\* Init scales it down to MaxWords so that a read of MaxNum elements takes
\* several chunks; InitFull gives it the size of a SYSWAY frame.
FINS_MAX_READ_WORDS_SYSWAY == max_read_words

\* the words of one SYSWAY frame
FullReadWords == 269

\* the service-id counter is one byte wide
SidModulus == 256

\* the caller's output array holds at least num elements; the model gives it
\* room past the largest count so that a store past num would show
BufLen == MaxNum + MaxWords

\* the positions of the caller's array that the model follows for a read of n
\* elements: the whole array and the room past it for a count up to MaxNum,
\* the first BufLen positions of a longer array
BufferFor(n) == BufLen

Bytes(w) == << (w \div 256) % 256, w % 256 >>

RECURSIVE SumLen(_)
SumLen(s) == IF s = << >> THEN 0 ELSE s[1].len + SumLen(Tail(s))

RECURSIVE Flatten(_)
Flatten(ss) == IF ss = << >> THEN << >> ELSE ss[1] \o Flatten(Tail(ss))

Min(a, b) == IF a < b THEN a ELSE b

(***************************************************************************)
(* The collaborators of the two operations, from their interface.          *)
(***************************************************************************)
\* the sentinel finslib_bcd_to_int returns for an undefined BCD word
INT16_MAX == 32767

FI_RD == "FI_RD"

\* the memory-area catalogue: name, element width, id range, the wire
\* address of low_id shifted left by 8, the area code, read permission
fins_area ==
    << [ name |-> "W", bits |-> 16, low_id |-> 0,   high_id |-> 511,
         low_addr |-> 0,       area |-> 177, read |-> TRUE ],
       [ name |-> "A", bits |-> 16, low_id |-> 448, high_id |-> 959,
         low_addr |-> 114688,  area |-> 179, read |-> TRUE ],
       [ name |-> "C", bits |-> 16, low_id |-> 0,   high_id |-> 4095,
         low_addr |-> 8388608, area |-> 137, read |-> TRUE ],
       [ name |-> "CF", bits |-> 1, low_id |-> 0,   high_id |-> 4095,
         low_addr |-> 8388608, area |-> 9,   read |-> TRUE ] >>

RECURSIVE DigitsValue(_)
DigitsValue(ds) ==
    IF ds = << >> THEN 0
    ELSE 10 * DigitsValue(SubSeq(ds, 1, Len(ds) - 1)) + ds[Len(ds)]

\* parse(text): an area token followed by a decimal word offset; error is
\* TRUE when the text does not follow the grammar
XX_finslib_decode_address(start) ==
    IF start.token = "" \/ start.digits = << >>
    THEN [ error |-> TRUE, name |-> "", main_address |-> 0 ]
    ELSE [ error |-> FALSE, name |-> start.token,
           main_address |-> DigitsValue(start.digits) ]

\* lookup: the first catalogue entry of that name and width that holds the
\* address and permits the access; NoArea when there is none
XX_finslib_search_area(address, bits, accs) ==
    LET hits == { a \in 1..Len(fins_area) :
                    /\ fins_area[a].bits = bits
                    /\ fins_area[a].low_id <= address.main_address
                    /\ fins_area[a].high_id >= address.main_address
                    /\ (accs = FI_RD => fins_area[a].read)
                    /\ fins_area[a].name = address.name }
    IN  IF hits = {} THEN NoArea
        ELSE fins_area[CHOOSE a \in hits : \A b \in hits : a <= b]

Nibble(w, k) == (w \div (16 ^ k)) % 16

\* unsigned BCD16: four decimal nibbles, else the sentinel
BcdUnsigned(w) ==
    IF \E k \in 0..3 : Nibble(w, k) > 9 THEN INT16_MAX
    ELSE 1000 * Nibble(w, 3) + 100 * Nibble(w, 2) + 10 * Nibble(w, 1) + Nibble(w, 0)

\* the codec: the unsigned rule, and for the signed variant modelled here
\* the sign in the top bit over a 15-bit BCD magnitude
finslib_bcd_to_int(bcd_val, type) ==
    IF type = FINS_DATA_TYPE_BCD16 THEN BcdUnsigned(bcd_val)
    ELSE LET mag == BcdUnsigned(bcd_val % 32768)
         IN  IF mag = INT16_MAX THEN INT16_MAX
             ELSE IF bcd_val >= 32768 THEN 0 - mag ELSE mag

\* the words a controller answers with in this model: 0x1234, 0x12A4, 0x8015
Words == { 4660, 4772, 32789 }

RECURSIVE SeqsOver(_, _)
SeqsOver(S, n) ==
    IF n = 0 THEN { << >> }
    ELSE { Append(s, x) : s \in SeqsOver(S, n - 1), x \in S }

\* what XX_finslib_communicate hands back for a read of len elements: one of
\* its own failures, or success with a body of the end-code and any number of
\* payload words (fewer, as many, or more than asked for)
ReadResponses(len) ==
    { [ retval |-> e, body |-> << >> ] :
        e \in { FINS_RETVAL_RESPONSE_TIMEOUT, FINS_RETVAL_ADDRESS_RANGE_EXCEEDED,
                FINS_RETVAL_BODY_TOO_SHORT } }
    \cup
    { [ retval |-> FINS_RETVAL_SUCCESS,
        body |-> << 0, 0 >> \o Flatten([ i \in 1..Len(ws) |-> Bytes(ws[i]) ]) ] :
        ws \in UNION { SeqsOver(Words, m) : m \in 0..(len + 1) } }

\* and for name set: a failure, or success with the end-code alone or with
\* trailing bytes
NameResponses ==
    { [ retval |-> e, body |-> << >> ] :
        e \in { FINS_RETVAL_RESPONSE_TIMEOUT, FINS_RETVAL_ADDRESS_RANGE_EXCEEDED,
                FINS_RETVAL_BODY_TOO_SHORT } }
    \cup
    { [ retval |-> FINS_RETVAL_SUCCESS, body |-> b ] :
        b \in { << 0, 0 >>, << 0, 0, 0 >>, << 0, 0, 0, 0 >> } }

\* build(session, opcode pair): the header takes the next service id
XX_finslib_init_command(s, mrc, src) ==
    [ mrc |-> mrc, src |-> src, sid |-> s, body |-> << >>, origin |-> 0, len |-> 0 ]

NextSid(s) == (s + 1) % SidModulus

(***************************************************************************)
(* The callers' inputs.                                                    *)
(***************************************************************************)
NullText == [ null |-> TRUE, token |-> "", digits |-> << >> ]
Text(t, ds) == [ null |-> FALSE, token |-> t, digits |-> ds ]

StartTexts ==
    { NullText,
      Text("W", << 5, 1, 0 >>),      \* two below the end of W
      Text("W", << 5, 1, 2 >>),      \* past the end of W
      Text("W", << >>),              \* no word offset: not an address
      Text("A", << 4, 5, 0 >>),      \* an area whose ids do not start at 0
      Text("C", << 7 >>),            \* an area whose wire addresses start at 0x8000
      Text("ZZ", << 5 >>),           \* a token the catalogue does not hold
      Text("ZZ", << >>) }            \* the same token without a word offset

NullName == [ null |-> TRUE, chars |-> << >> ]
Name(n) == [ null |-> FALSE, chars |-> [ i \in 1..n |-> 96 + i ] ]
Names == { NullName, Name(0), Name(3), Name(8), Name(9), Name(12) }

NoArgs == [ sys |-> NULL, start |-> NullText, data |-> NULL, num |-> 0,
            type |-> FINS_DATA_TYPE_BCD16, name |-> NullName ]

ReadArgs ==
    { [ sys |-> s, start |-> t, data |-> d, num |-> n, type |-> ty, name |-> NullName ] :
        s \in { NULL, "sys" }, t \in StartTexts, d \in { NULL, "data" },
        n \in 0..MaxNum, ty \in { FINS_DATA_TYPE_BCD16, FINS_DATA_TYPE_SBCD16_1 } }

NameArgs ==
    { [ sys |-> s, start |-> NullText, data |-> NULL, num |-> 0,
        type |-> FINS_DATA_TYPE_BCD16, name |-> nm ] :
        s \in { NULL, "sys" }, nm \in Names }

(***************************************************************************)
(* process_data, src/fins_01_01_bcd16.c.                                   *)
(***************************************************************************)
Proceed == "proceed"

\* the checks with the socket check left out
ProcessDataChecks_NoSocketCheck(a, sock) ==
    IF a.num = 0 THEN FINS_RETVAL_SUCCESS
    ELSE IF a.sys = NULL THEN FINS_RETVAL_NOT_INITIALIZED
    ELSE IF a.start.null THEN FINS_RETVAL_NO_READ_ADDRESS
    ELSE IF a.data = NULL THEN FINS_RETVAL_NO_DATA_BLOCK
    ELSE IF XX_finslib_decode_address(a.start).error
         THEN FINS_RETVAL_INVALID_READ_ADDRESS
    ELSE IF XX_finslib_search_area(XX_finslib_decode_address(a.start), 16, FI_RD) = NoArea
         THEN FINS_RETVAL_INVALID_READ_AREA
    ELSE Proceed

\* the checks with the zero-count check left out
ProcessDataChecks_NoZeroCheck(a, sock) ==
    IF a.sys = NULL THEN FINS_RETVAL_NOT_INITIALIZED
    ELSE IF a.start.null THEN FINS_RETVAL_NO_READ_ADDRESS
    ELSE IF a.data = NULL THEN FINS_RETVAL_NO_DATA_BLOCK
    ELSE IF sock = INVALID_SOCKET THEN FINS_RETVAL_NOT_CONNECTED
    ELSE IF XX_finslib_decode_address(a.start).error
         THEN FINS_RETVAL_INVALID_READ_ADDRESS
    ELSE IF XX_finslib_search_area(XX_finslib_decode_address(a.start), 16, FI_RD) = NoArea
         THEN FINS_RETVAL_INVALID_READ_AREA
    ELSE Proceed

\* the checks with the result of the area lookup not tested
ProcessDataChecks_NoAreaCheck(a, sock) ==
    IF a.num = 0 THEN FINS_RETVAL_SUCCESS
    ELSE IF a.sys = NULL THEN FINS_RETVAL_NOT_INITIALIZED
    ELSE IF a.start.null THEN FINS_RETVAL_NO_READ_ADDRESS
    ELSE IF a.data = NULL THEN FINS_RETVAL_NO_DATA_BLOCK
    ELSE IF sock = INVALID_SOCKET THEN FINS_RETVAL_NOT_CONNECTED
    ELSE IF XX_finslib_decode_address(a.start).error
         THEN FINS_RETVAL_INVALID_READ_ADDRESS
    ELSE Proceed

\* the checks with the output pointer not tested
ProcessDataChecks_NoDataCheck(a, sock) ==
    IF a.num = 0 THEN FINS_RETVAL_SUCCESS
    ELSE IF a.sys = NULL THEN FINS_RETVAL_NOT_INITIALIZED
    ELSE IF a.start.null THEN FINS_RETVAL_NO_READ_ADDRESS
    ELSE IF sock = INVALID_SOCKET THEN FINS_RETVAL_NOT_CONNECTED
    ELSE IF XX_finslib_decode_address(a.start).error
         THEN FINS_RETVAL_INVALID_READ_ADDRESS
    ELSE IF XX_finslib_search_area(XX_finslib_decode_address(a.start), 16, FI_RD) = NoArea
         THEN FINS_RETVAL_INVALID_READ_AREA
    ELSE Proceed

\* lines 94-102: the checks before the loop, first failing check first
ProcessDataChecks(a, sock) ==
    IF a.num = 0 THEN FINS_RETVAL_SUCCESS
    ELSE IF a.sys = NULL THEN FINS_RETVAL_NOT_INITIALIZED
    ELSE IF a.start.null THEN FINS_RETVAL_NO_READ_ADDRESS
    ELSE IF a.data = NULL THEN FINS_RETVAL_NO_DATA_BLOCK
    ELSE IF sock = INVALID_SOCKET THEN FINS_RETVAL_NOT_CONNECTED
    ELSE IF XX_finslib_decode_address(a.start).error
         THEN FINS_RETVAL_INVALID_READ_ADDRESS
    ELSE IF XX_finslib_search_area(XX_finslib_decode_address(a.start), 16, FI_RD) = NoArea
         THEN FINS_RETVAL_INVALID_READ_AREA
    ELSE Proceed

\* lines 106-108: the origin of the first chunk
BaseOrigin(address, area) ==
    address.main_address + (area.low_addr \div 256) - area.low_id

\* line 111: the limit a chunk starts from
ChunkLimit(t) == FINS_MAX_READ_WORDS_SYSWAY

\* the clamp to the remaining count left out
ChunkLength_NoClamp(limit, td) == limit

\* a full chunk one element short of the maximum
ChunkLength_OffByOne(limit, td) == IF limit > td THEN td ELSE limit - 1

\* lines 111-112
ChunkLength(limit, td) == IF limit > td THEN td ELSE limit

\* the request body with the two address bytes low byte first
ReadBody_LittleEndian(area, start, len) ==
    << area.area, start % 256, (start \div 256) % 256, 0,
       (len \div 256) % 256, len % 256 >>

\* lines 116-123: the request body
ReadBody(area, start, len) ==
    << area.area, (start \div 256) % 256, start % 256, 0,
       (len \div 256) % 256, len % 256 >>

\* the length of the response not tested
BodyLenOk_Unchecked(bodylen, len) == TRUE

\* a body longer than expected let through
BodyLenOk_AtLeast(bodylen, len) == bodylen >= 2 + 2 * len

\* line 127
BodyLenOk(bodylen, len) == bodylen = 2 + 2 * len

\* a byte of the command's body buffer; past the received length the buffer
\* holds nothing the response put there
BodyByte(body, k) == IF k + 1 <= Len(body) THEN body[k + 1] ELSE 0

\* the two bytes of a word taken low byte first
BodyWord_LittleEndian(body, a) ==
    (((BodyByte(body, 3 + 2 * a) * 256) % 65536) + BodyByte(body, 2 + 2 * a)) % 65536

\* lines 133-135: the a-th word of the payload
BodyWord(body, a) ==
    (((BodyByte(body, 2 + 2 * a) * 256) % 65536) + BodyByte(body, 3 + 2 * a)) % 65536

\* the store indexed by a alone, the offset left out
StoreChunk_NoOffset(d, off, len, body, type) ==
    [ i \in 1..Len(d) |->
        IF i <= len
        THEN Stored(finslib_bcd_to_int(BodyWord(body, i - 1), type) % 65536)
        ELSE d[i] ]

\* lines 129-138: the chunk's words decoded into data[offset .. offset+len-1]
StoreChunk(d, off, len, body, type) ==
    [ i \in 1..Len(d) |->
        IF off < i /\ i <= off + len
        THEN Stored(finslib_bcd_to_int(BodyWord(body, i - off - 1), type) % 65536)
        ELSE d[i] ]

\* finslib_memory_area_read_bcd16 / _sbcd16 entered: lines 94-108
ReadCall(a) ==
    /\ pc = "idle"
    /\ sid < MaxSid
    /\ entry_sid' = sid
    /\ LET chk  == ProcessDataChecks(a, sockfd)
           addr == XX_finslib_decode_address(a.start)
           ar   == XX_finslib_search_area(addr, 16, FI_RD)
       IN  /\ op' = "read"
           /\ args' = a
           /\ data' = IF a.data = NULL THEN << >> ELSE [ i \in 1..BufferFor(a.num) |-> Unwritten ]
           /\ IF chk = Proceed
              THEN /\ pc' = "chunk"
                   /\ retval' = "none"
                   /\ area_ptr' = ar
                   /\ offset' = 0
                   /\ todo' = a.num
                   /\ chunk_start' = BaseOrigin(addr, ar)
              ELSE /\ pc' = "done"
                   /\ retval' = chk
                   /\ UNCHANGED << area_ptr, offset, todo, chunk_start >>
    /\ UNCHANGED << sockfd, transport, sid, chunk_length, sent, received, applied,
                    max_read_words >>

\* lines 111-125: one chunk's command initialised, filled and handed to
\* XX_finslib_communicate
ReadSend ==
    /\ pc = "chunk"
    /\ LET len == ChunkLength(ChunkLimit(transport), todo)
           cmd == XX_finslib_init_command(sid, 1, 1)
       IN  /\ chunk_length' = len
           /\ sent' = Append(sent, [ cmd EXCEPT !.body = ReadBody(area_ptr, chunk_start, len),
                                                !.origin = chunk_start,
                                                !.len = len ])
           /\ applied' = [ applied EXCEPT ![transport] = ChunkLimit(transport) ]
    /\ sid' = NextSid(sid)
    /\ pc' = "await_read"
    /\ UNCHANGED << sockfd, transport, entry_sid, op, args, area_ptr, offset, todo, chunk_start,
                    data, received, max_read_words, retval >>

\* lines 125-146: XX_finslib_communicate returns with r
ReadReceiveWith(r) ==
    /\ received' = Append(received, r)
    /\ IF r.retval # FINS_RETVAL_SUCCESS
       THEN /\ pc' = "done"
            /\ retval' = r.retval
            /\ UNCHANGED << data, todo, offset, chunk_start >>
       ELSE IF ~BodyLenOk(Len(r.body), chunk_length)
       THEN /\ pc' = "done"
            /\ retval' = FINS_RETVAL_BODY_TOO_SHORT
            /\ UNCHANGED << data, todo, offset, chunk_start >>
       ELSE /\ data' = StoreChunk(data, offset, chunk_length, r.body, args.type)
            /\ todo' = todo - chunk_length
            /\ offset' = offset + chunk_length
            /\ chunk_start' = chunk_start + chunk_length
            /\ IF todo - chunk_length > 0
               THEN pc' = "chunk" /\ retval' = "none"
               ELSE pc' = "done" /\ retval' = FINS_RETVAL_SUCCESS
    /\ UNCHANGED << sockfd, transport, sid, entry_sid, op, args, area_ptr, chunk_length,
                    sent, applied, max_read_words >>

\* lines 125-146, for whatever XX_finslib_communicate may hand back
ReadReceive ==
    /\ pc = "await_read"
    /\ \E r \in ReadResponses(chunk_length) : ReadReceiveWith(r)

(***************************************************************************)
(* finslib_name_set, src/fins_26_01.c.                                     *)
(***************************************************************************)
\* the checks with the name check left out
NameSetChecks_NoNameCheck(a, sock) ==
    IF a.sys = NULL THEN FINS_RETVAL_NOT_INITIALIZED
    ELSE IF sock = INVALID_SOCKET THEN FINS_RETVAL_NOT_CONNECTED
    ELSE Proceed

\* the checks with the name tested before the connection
NameSetChecks_NameFirst(a, sock) ==
    IF a.sys = NULL THEN FINS_RETVAL_NOT_INITIALIZED
    ELSE IF a.name.null THEN FINS_RETVAL_NO_DATA_BLOCK
    ELSE IF sock = INVALID_SOCKET THEN FINS_RETVAL_NOT_CONNECTED
    ELSE Proceed

\* lines 51-53
NameSetChecks(a, sock) ==
    IF a.sys = NULL THEN FINS_RETVAL_NOT_INITIALIZED
    ELSE IF sock = INVALID_SOCKET THEN FINS_RETVAL_NOT_CONNECTED
    ELSE IF a.name.null THEN FINS_RETVAL_NO_DATA_BLOCK
    ELSE Proceed

\* lines 59-63: one character per iteration, while bodylen < 8 and the
\* terminator is not reached
RECURSIVE NameLoop(_, _)
NameLoop(chars, body) ==
    IF Len(body) < 8 /\ Len(body) < Len(chars)
    THEN NameLoop(chars, Append(body, chars[Len(body) + 1]))
    ELSE body

\* the whole name copied, the limit of eight left out
NameBody_NoLimit(chars) == chars

\* lines 57-63: the request body
NameBody(chars) == NameLoop(chars, << >>)

\* line 67
NameLenOk(bodylen) == bodylen = 2

\* finslib_name_set entered: lines 51-65, up to the call of
\* XX_finslib_communicate
NameSetCall(a) ==
    /\ pc = "idle"
    /\ sid < MaxSid
    /\ op' = "name_set"
    /\ args' = a
    /\ entry_sid' = sid
    /\ LET chk == NameSetChecks(a, sockfd)
           cmd == XX_finslib_init_command(sid, 38, 1)
       IN  IF chk = Proceed
           THEN /\ pc' = "await_name"
                /\ retval' = "none"
                /\ sid' = NextSid(sid)
                /\ sent' = Append(sent, [ cmd EXCEPT !.body = NameBody(a.name.chars) ])
           ELSE /\ pc' = "done"
                /\ retval' = chk
                /\ UNCHANGED << sid, sent >>
    /\ UNCHANGED << sockfd, transport, area_ptr, offset, todo, chunk_start,
                    chunk_length, data, received, applied, max_read_words >>

\* the return with every failure of XX_finslib_communicate reported as one
\* status
NameSetReceive_Collapsed ==
    /\ pc = "await_name"
    /\ \E r \in NameResponses :
        /\ received' = Append(received, r)
        /\ retval' = IF r.retval # FINS_RETVAL_SUCCESS THEN FINS_RETVAL_BODY_TOO_SHORT
                     ELSE IF ~NameLenOk(Len(r.body)) THEN FINS_RETVAL_BODY_TOO_SHORT
                     ELSE FINS_RETVAL_SUCCESS
    /\ pc' = "done"
    /\ UNCHANGED << sockfd, transport, sid, entry_sid, op, args, area_ptr, offset, todo,
                    chunk_start, chunk_length, data, sent, applied, max_read_words >>

\* lines 65-69: XX_finslib_communicate returns
NameSetReceive ==
    /\ pc = "await_name"
    /\ \E r \in NameResponses :
        /\ received' = Append(received, r)
        /\ retval' = IF r.retval # FINS_RETVAL_SUCCESS THEN r.retval
                     ELSE IF ~NameLenOk(Len(r.body)) THEN FINS_RETVAL_BODY_TOO_SHORT
                     ELSE FINS_RETVAL_SUCCESS
    /\ pc' = "done"
    /\ UNCHANGED << sockfd, transport, sid, entry_sid, op, args, area_ptr, offset, todo,
                    chunk_start, chunk_length, data, sent, applied, max_read_words >>

(***************************************************************************)
(* The caller and the connection layer.                                    *)
(***************************************************************************)
\* the call has returned; the caller is free to make the next one
Return ==
    /\ pc = "done"
    /\ pc' = "idle"
    /\ op' = "none"
    /\ args' = NoArgs
    /\ area_ptr' = NoArea
    /\ offset' = 0
    /\ todo' = 0
    /\ chunk_start' = 0
    /\ chunk_length' = 0
    /\ data' = << >>
    /\ sent' = << >>
    /\ received' = << >>
    /\ retval' = "none"
    /\ entry_sid' = sid
    /\ UNCHANGED << sockfd, transport, sid, applied, max_read_words >>

\* the connection layer brings the session to Connected over a transport
Connect(t) ==
    /\ pc = "idle"
    /\ sockfd = INVALID_SOCKET
    /\ sockfd' = "open"
    /\ transport' = t
    /\ UNCHANGED << sid, entry_sid, pc, op, args, area_ptr, offset, todo, chunk_start,
                    chunk_length, data, sent, received, applied, max_read_words, retval >>

\* and closes it
Disconnect ==
    /\ pc = "idle"
    /\ sockfd = "open"
    /\ sockfd' = INVALID_SOCKET
    /\ UNCHANGED << transport, sid, entry_sid, pc, op, args, area_ptr, offset, todo, chunk_start,
                    chunk_length, data, sent, received, applied, max_read_words, retval >>

\* the session after construction, not connected, nothing called yet
InitSession ==
    /\ sockfd = INVALID_SOCKET
    /\ transport = "stream"
    /\ sid = 0
    /\ entry_sid = 0
    /\ pc = "idle"
    /\ op = "none"
    /\ args = NoArgs
    /\ area_ptr = NoArea
    /\ offset = 0
    /\ todo = 0
    /\ chunk_start = 0
    /\ chunk_length = 0
    /\ data = << >>
    /\ sent = << >>
    /\ received = << >>
    /\ applied = [ t \in { "stream", "datagram" } |-> 0 ]
    /\ retval = "none"

Init == InitSession /\ max_read_words = MaxWords

DoRead == \E a \in ReadArgs : ReadCall(a)
DoNameSet == \E a \in NameArgs : NameSetCall(a)
DoConnect == \E t \in { "stream", "datagram" } : Connect(t)

Next ==
    \/ DoRead
    \/ ReadSend
    \/ ReadReceive
    \/ DoNameSet
    \/ NameSetReceive
    \/ Return
    \/ DoConnect
    \/ Disconnect

Spec == Init /\ [][Next]_vars

(***************************************************************************)
(* A long read with the chunk size of a full frame: the last counter of    *)
(* area C and a count that takes the loop past wire address 0xFFFF, over   *)
(* a stream connection, the controller answering every chunk in full or    *)
(* not at all.                                                             *)
(***************************************************************************)
InitFull == InitSession /\ max_read_words = FullReadWords

\* the elements of the 107 full chunks from C4095 on, and one more
WrapNum == 107 * FullReadWords + 1

WrapArgs ==
    { [ sys |-> "sys", start |-> Text("C", << 4, 0, 9, 5 >>), data |-> "data",
        num |-> n, type |-> FINS_DATA_TYPE_BCD16, name |-> NullName ] :
        n \in { FullReadWords, WrapNum } }

WrapResponses(len) ==
    { [ retval |-> FINS_RETVAL_RESPONSE_TIMEOUT, body |-> << >> ],
      [ retval |-> FINS_RETVAL_SUCCESS,
        body |-> [ k \in 1..(2 + 2 * len) |->
                     IF k <= 2 THEN 0 ELSE Bytes(4660)[1 + ((k - 3) % 2)] ] ] }

WrapRead == \E a \in WrapArgs : ReadCall(a)
WrapReceive ==
    /\ pc = "await_read"
    /\ \E r \in WrapResponses(chunk_length) : ReadReceiveWith(r)

WrapConnect == Connect("stream")

WrapNext ==
    \/ WrapRead
    \/ ReadSend
    \/ WrapReceive
    \/ Return
    \/ WrapConnect

WrapSpec == InitFull /\ [][WrapNext]_vars

\* every transaction returns: XX_finslib_communicate is a blocking call that
\* comes back (line 125), and the loop goes on to its next statement
FairSpec == Spec /\ WF_vars(ReadSend) /\ WF_vars(ReadReceive)

(***************************************************************************)
(* Properties.                                                             *)
(***************************************************************************)
ReadDone == pc = "done" /\ op = "read"
NameDone == pc = "done" /\ op = "name_set"

\* the elements requested by the first k commands of this call
Requested(k) == SumLen(SubSeq(sent, 1, k))

\* the payload bytes, after the end-code, of the first k responses in order
PayloadBytes(k) ==
    Flatten([ i \in 1..k |-> SubSeq(received[i].body, 3, Len(received[i].body)) ])

\* the i-th 16-bit word, big-endian, of a byte sequence
WordOf(bytes, i) == 256 * bytes[2 * i - 1] + bytes[2 * i]

\* what the output holds for a word received: the codec's value as uint16_t
Decoded(w) == Stored(finslib_bcd_to_int(w, args.type) % 65536)

\* C1: the transactions of a read cover the elements contiguously and in
\* increasing order: the first chunk starts at the resolved base origin,
\* each next chunk starts where the one before ended, every length is
\* between 1 and the per-transaction maximum, only the final chunk of a
\* successful read is shorter than the maximum, and on success the lengths
\* sum to the element count.
C1_ChunksCoverRange ==
    op = "read" /\ sent # << >> =>
        /\ sent[1].origin = XX_finslib_decode_address(args.start).main_address
                            + (area_ptr.low_addr \div 256) - area_ptr.low_id
        /\ \A i \in 1..(Len(sent) - 1) :
              /\ sent[i + 1].origin = sent[i].origin + sent[i].len
              /\ sent[i].len = FINS_MAX_READ_WORDS_SYSWAY
        /\ \A i \in 1..Len(sent) :
              sent[i].len >= 1 /\ sent[i].len <= FINS_MAX_READ_WORDS_SYSWAY
        /\ Requested(Len(sent)) <= args.num
        /\ (pc = "done" /\ retval = FINS_RETVAL_SUCCESS => Requested(Len(sent)) = args.num)

\* a successful read of three chunks whose last chunk is shorter than the rest
C1_Witness ==
    /\ ReadDone
    /\ retval = FINS_RETVAL_SUCCESS
    /\ Len(sent) = 3
    /\ sent[3].len < sent[2].len

\* C2: when the transaction of chunk k fails (an executor failure or a
\* response of the wrong length), the read returns a failure, the output
\* positions of chunks 0..k-1 hold the decoded words of those chunks, nothing
\* else of the output is stored, and chunk k's request is the last one made.
C2_PartialProgressKept ==
    ReadDone /\ sent # << >> /\ retval # FINS_RETVAL_SUCCESS =>
        LET k    == Len(sent) - 1
            done == Requested(k)
        IN  /\ Len(received) = k + 1
            /\ \/ received[k + 1].retval # FINS_RETVAL_SUCCESS
               \/ Len(received[k + 1].body) # 2 + 2 * sent[k + 1].len
            /\ \A i \in 1..done : data[i] = Decoded(WordOf(PayloadBytes(k), i))
            /\ \A i \in (done + 1)..Len(data) : data[i] = Unwritten

\* the third chunk's transaction fails on a remote end-code after two chunks
\* were stored
C2_Witness ==
    /\ ReadDone
    /\ Len(sent) = 3
    /\ retval = FINS_RETVAL_ADDRESS_RANGE_EXCEEDED
    /\ data[4].w
    /\ ~data[5].w

\* the session exists and is not in the Connected state
NotConnected == args.sys # NULL /\ sockfd = INVALID_SOCKET

\* the call initialised no command and handed nothing to the transport
NoIO == sent = << >> /\ received = << >> /\ sid = entry_sid

\* no element of the output array was stored
NothingStored == \A i \in 1..Len(data) : data[i] = Unwritten

\* C3 as stated: an operation on a session that is not connected returns
\* NotConnected without attempting to send, whatever its other arguments.
C3_AlwaysNotConnected ==
    pc = "done" /\ NotConnected => retval = FINS_RETVAL_NOT_CONNECTED /\ NoIO

\* C3 as amended: an operation on a session that is not connected never
\* attempts to send; name set returns NotConnected, and a read returns
\* NotConnected unless an earlier check decides: a zero count gives Success,
\* a null address NoReadAddress, a null output NoDataBlock.
C3_NeverSendsWhenNotConnected ==
    pc = "done" /\ NotConnected =>
        /\ NoIO
        /\ NothingStored
        /\ op = "name_set" => retval = FINS_RETVAL_NOT_CONNECTED
        /\ op = "read" =>
              retval = IF args.num = 0 THEN FINS_RETVAL_SUCCESS
                       ELSE IF args.start.null THEN FINS_RETVAL_NO_READ_ADDRESS
                       ELSE IF args.data = NULL THEN FINS_RETVAL_NO_DATA_BLOCK
                       ELSE FINS_RETVAL_NOT_CONNECTED

\* a read of a valid address into a buffer on a session that is not connected
C3_Witness ==
    /\ ReadDone
    /\ NotConnected
    /\ args.num > 0
    /\ args.start = Text("W", << 5, 1, 0 >>)
    /\ args.data # NULL
    /\ retval = FINS_RETVAL_NOT_CONNECTED

\* C4: a read of zero elements returns Success, initialises no command,
\* executes no transaction and stores nothing in the output, whatever the
\* session and the other arguments are.
C4_ZeroCountNoIO ==
    ReadDone /\ args.num = 0 =>
        retval = FINS_RETVAL_SUCCESS /\ NoIO /\ NothingStored

\* a read of zero elements of a valid address on a connected session
C4_Witness ==
    /\ ReadDone
    /\ args.num = 0
    /\ args.sys # NULL
    /\ args.data # NULL
    /\ sockfd = "open"
    /\ args.start = Text("W", << 5, 1, 0 >>)
    /\ retval = FINS_RETVAL_SUCCESS

\* C5: when the executor delivers, for chunk k, a response whose body is
\* shorter than 2 + 2 * (the count requested), the read returns BodyTooShort
\* and no output position of chunk k or of a later chunk is stored.
C5_ShortBodyStoresNothing ==
    ReadDone /\ received # << >> =>
        LET k    == Len(received)
            resp == received[k]
        IN  resp.retval = FINS_RETVAL_SUCCESS /\ Len(resp.body) < 2 + 2 * sent[k].len =>
               /\ retval = FINS_RETVAL_BODY_TOO_SHORT
               /\ \A i \in (Requested(k - 1) + 1)..Len(data) : data[i] = Unwritten

\* the second chunk asks for two words and its response carries one
C5_Witness ==
    /\ ReadDone
    /\ Len(sent) = 2
    /\ Len(received) = 2
    /\ received[2].retval = FINS_RETVAL_SUCCESS
    /\ sent[2].len = 2
    /\ Len(received[2].body) = 4
    /\ retval = FINS_RETVAL_BODY_TOO_SHORT

\* C6 as stated: every chunk requested lies within the bounds of the area the
\* address resolved to, origin and last element both.
C6_ChunksWithinArea ==
    op = "read" =>
        \A i \in 1..Len(sent) :
            LET low  == area_ptr.low_addr \div 256
                high == low + (area_ptr.high_id - area_ptr.low_id)
            IN  /\ low <= sent[i].origin
                /\ sent[i].origin + sent[i].len - 1 <= high

\* C7 as stated: every chunk is at most the limit of the session's transport,
\* and the limit applied under datagram transport is smaller than the one
\* applied under stream transport.
C7_LimitPerTransport ==
    /\ op = "read" => \A i \in 1..Len(sent) : sent[i].len <= applied[transport]
    /\ applied["datagram"] # 0 /\ applied["stream"] # 0 =>
          applied["datagram"] < applied["stream"]

\* the first min(length, 8) characters of the name
NamePrefix == [ i \in 1..Min(Len(args.name.chars), 8) |-> args.name.chars[i] ]

\* name set called with a name on a connected session
NameSetSent == args.sys # NULL /\ sockfd = "open" /\ ~args.name.null

\* C8 as stated: name set on a connected session transmits exactly the first
\* min(length, 8) characters of the name and returns Success when the
\* transaction succeeds.
C8_SuccessWheneverTransactionSucceeds ==
    NameDone /\ NameSetSent =>
        /\ Len(sent) = 1
        /\ sent[1].body = NamePrefix
        /\ received[1].retval = FINS_RETVAL_SUCCESS => retval = FINS_RETVAL_SUCCESS

\* C8 as amended: name set on a connected session transmits exactly the first
\* min(length, 8) characters of the name, whatever its length, and returns
\* Success when the transaction succeeds with a response body of exactly 2
\* bytes; a successful transaction with any other body length gives
\* BodyTooShort.
C8_TruncatesToEight ==
    NameDone /\ NameSetSent =>
        /\ Len(sent) = 1
        /\ sent[1].mrc = 38 /\ sent[1].src = 1
        /\ sent[1].body = NamePrefix
        /\ received[1].retval = FINS_RETVAL_SUCCESS =>
              retval = IF Len(received[1].body) = 2 THEN FINS_RETVAL_SUCCESS
                       ELSE FINS_RETVAL_BODY_TOO_SHORT

\* a name of 12 characters, of which 8 were sent, and Success returned
C8_Witness ==
    /\ NameDone
    /\ Len(args.name.chars) = 12
    /\ Len(sent) = 1
    /\ Len(sent[1].body) = 8
    /\ retval = FINS_RETVAL_SUCCESS

\* C9 as stated: name set with a null name returns NoDataBlock, and no
\* command is built or transmitted (taken here for any session that exists).
C9_NullNameNoDataBlock ==
    NameDone /\ args.name.null /\ args.sys # NULL =>
        retval = FINS_RETVAL_NO_DATA_BLOCK /\ NoIO

\* C9 as amended: name set with a null name always fails without building or
\* transmitting a command; the status is NoDataBlock on a connected session,
\* NotInitialized for a null session and NotConnected for a session that is
\* not connected.
C9_NullNameFailsWithoutWrite ==
    NameDone /\ args.name.null =>
        /\ NoIO
        /\ retval = IF args.sys = NULL THEN FINS_RETVAL_NOT_INITIALIZED
                    ELSE IF sockfd = INVALID_SOCKET THEN FINS_RETVAL_NOT_CONNECTED
                    ELSE FINS_RETVAL_NO_DATA_BLOCK

\* name set with a null name on a connected session
C9_Witness ==
    /\ NameDone
    /\ args.name.null
    /\ args.sys # NULL
    /\ sockfd = "open"
    /\ retval = FINS_RETVAL_NO_DATA_BLOCK

\* the address text names a token that no entry of the catalogue carries
UnknownToken ==
    /\ ~args.start.null
    /\ args.start.token # ""
    /\ \A a \in 1..Len(fins_area) : fins_area[a].name # args.start.token

\* C10 as stated: a read whose address names a token that is not in the
\* catalogue returns InvalidReadArea before any network call.
C10_UnknownTokenInvalidArea ==
    ReadDone /\ UnknownToken => retval = FINS_RETVAL_INVALID_READ_AREA /\ NoIO

\* C10 as amended: a read whose address names a token that is not in the
\* catalogue makes no network call; it returns InvalidReadArea when the
\* count is positive, the session and the output are not null, the session
\* is connected and the address text parses, and otherwise the status of the
\* earlier check that fails.
C10_UnknownTokenNoNetwork ==
    ReadDone /\ UnknownToken =>
        /\ NoIO
        /\ NothingStored
        /\ retval = IF args.num = 0 THEN FINS_RETVAL_SUCCESS
                    ELSE IF args.sys = NULL THEN FINS_RETVAL_NOT_INITIALIZED
                    ELSE IF args.data = NULL THEN FINS_RETVAL_NO_DATA_BLOCK
                    ELSE IF sockfd = INVALID_SOCKET THEN FINS_RETVAL_NOT_CONNECTED
                    ELSE IF args.start.digits = << >> THEN FINS_RETVAL_INVALID_READ_ADDRESS
                    ELSE FINS_RETVAL_INVALID_READ_AREA

\* a read of an unknown token that passes every earlier check
C10_Witness ==
    /\ ReadDone
    /\ UnknownToken
    /\ args.num > 0
    /\ args.sys # NULL
    /\ args.data # NULL
    /\ sockfd = "open"
    /\ retval = FINS_RETVAL_INVALID_READ_AREA

\* the chunks of this read whose response was accepted and stored
Accepted ==
    IF pc = "done" /\ retval # FINS_RETVAL_SUCCESS /\ received # << >>
    THEN Len(received) - 1
    ELSE Len(received)

\* C11: at most one transaction of the session is outstanding during a read,
\* and the chunks run one after the other: whenever a request has been made,
\* every earlier request has had its response received, found of the
\* expected length and stored in the output.
C11_OneOutstandingSequential ==
    op = "read" =>
        /\ Len(received) <= Len(sent)
        /\ Len(sent) <= Len(received) + 1
        /\ Len(sent) = Len(received) + 1 <=> pc = "await_read"
        /\ \A i \in 1..(Len(sent) - 1) :
              /\ received[i].retval = FINS_RETVAL_SUCCESS
              /\ Len(received[i].body) = 2 + 2 * sent[i].len
              /\ \A j \in 1..Requested(i) : data[j].w

\* the third request is outstanding and two responses have been stored
C11_Witness ==
    /\ op = "read"
    /\ pc = "await_read"
    /\ Len(sent) = 3
    /\ Len(received) = 2
    /\ data[4].w

\* the four hexadecimal digits of a 16-bit word, highest first
HexDigits(w) == << w \div 4096, (w \div 256) % 16, (w \div 16) % 16, w % 16 >>

\* what C12 says the output holds for a word: its decimal reading when the
\* four digits are all decimal, the sentinel otherwise
DecimalOrSentinel(w) ==
    LET d == HexDigits(w)
    IN  IF \A k \in 1..4 : d[k] <= 9
        THEN 1000 * d[1] + 100 * d[2] + 10 * d[3] + d[4]
        ELSE INT16_MAX

ReadNullArg == args.sys = NULL \/ args.start.null \/ args.data = NULL

\* name set given a null session or name
NameNullArg == args.sys = NULL \/ args.name.null

\* C13 as stated: a read given a null session, address or output (taken here
\* with a positive count), or name set given a null session or name, returns
\* one of NotInitialized, NoReadAddress, NoDataBlock, initialises no command,
\* sends nothing and stores nothing.
C13_NullArgSpecificStatus ==
    ((ReadDone /\ args.num > 0 /\ ReadNullArg) \/ (NameDone /\ NameNullArg)) =>
        /\ retval \in { FINS_RETVAL_NOT_INITIALIZED, FINS_RETVAL_NO_READ_ADDRESS,
                        FINS_RETVAL_NO_DATA_BLOCK }
        /\ NoIO
        /\ NothingStored

\* C13 as amended: a call given a null argument initialises no command (the
\* service-id counter is unchanged), sends nothing and stores nothing, and
\* returns the status of the first check that fails: for a read Success when
\* the count is 0, else NotInitialized, NoReadAddress or NoDataBlock; for
\* name set NotInitialized for a null session and, for a null name,
\* NotConnected when the session is not connected and NoDataBlock otherwise.
C13_NullArgNoSideEffect ==
    /\ ReadDone /\ ReadNullArg =>
          /\ NoIO
          /\ NothingStored
          /\ retval = IF args.num = 0 THEN FINS_RETVAL_SUCCESS
                      ELSE IF args.sys = NULL THEN FINS_RETVAL_NOT_INITIALIZED
                      ELSE IF args.start.null THEN FINS_RETVAL_NO_READ_ADDRESS
                      ELSE FINS_RETVAL_NO_DATA_BLOCK
    /\ NameDone /\ NameNullArg =>
          /\ NoIO
          /\ retval = IF args.sys = NULL THEN FINS_RETVAL_NOT_INITIALIZED
                      ELSE IF sockfd = INVALID_SOCKET THEN FINS_RETVAL_NOT_CONNECTED
                      ELSE FINS_RETVAL_NO_DATA_BLOCK

\* a read of a valid address on a connected session, given no output array,
\* after an earlier call has moved the service-id counter
C13_Witness ==
    /\ ReadDone
    /\ args.num > 0
    /\ args.sys # NULL
    /\ args.start = Text("W", << 5, 1, 0 >>)
    /\ args.data = NULL
    /\ sockfd = "open"
    /\ sid > 0
    /\ retval = FINS_RETVAL_NO_DATA_BLOCK

(***************************************************************************)
(* C14: the request of every chunk of a bulk read carries the opcode pair  *)
(* 01 01 and a body of exactly six bytes: the area code, the chunk origin  *)
(* high byte first, a bit index of 0, the chunk length high byte first.    *)
(***************************************************************************)
C14_RequestBodyLayout ==
    op = "read" =>
        \A i \in 1..Len(sent) :
            LET cmd == sent[i]
            IN  /\ cmd.mrc = 1
                /\ cmd.src = 1
                /\ Len(cmd.body) = 6
                /\ \A k \in 1..6 : cmd.body[k] \in 0..255
                /\ cmd.body[1] = area_ptr.area
                /\ 256 * cmd.body[2] + cmd.body[3] = cmd.origin % 65536
                /\ cmd.body[4] = 0
                /\ 256 * cmd.body[5] + cmd.body[6] = cmd.len % 65536

\* a chunk whose origin has both bytes different from 0 and from each other
C14_Witness ==
    /\ op = "read"
    /\ Len(sent) = 1
    /\ sent[1].origin = 510
    /\ sent[1].body = << 177, 1, 254, 0, 0, 2 >>

(***************************************************************************)
(* C15: after a bulk read of n elements returns Success, output position   *)
(* i holds the decoding of the i-th big-endian word of the response        *)
(* payloads concatenated in chunk order, for every i below n, and nothing  *)
(* beyond n is written; during the call each step writes only positions    *)
(* not written before, those from the offset on for the chunk's length,    *)
(* so no position is skipped, duplicated or written by two chunks.         *)
(***************************************************************************)
ResultsInOrder ==
    ReadDone /\ retval = FINS_RETVAL_SUCCESS /\ args.num > 0 =>
        /\ \A i \in 1..args.num :
              data[i] = Decoded(WordOf(PayloadBytes(Len(received)), i))
        /\ \A i \in (args.num + 1)..Len(data) : data[i] = Unwritten

WrittenOnce ==
    op = "read" /\ op' = "read" =>
        /\ Len(data') = Len(data)
        /\ \A i \in 1..Len(data) :
              /\ data[i].w => data'[i] = data[i]
              /\ ~data[i].w /\ data'[i].w => offset < i /\ i <= offset + chunk_length
              /\ offset' > offset /\ offset < i /\ i <= offset' => data'[i].w

C15_ResultsLandInOrder == [] ResultsInOrder /\ [][WrittenOnce]_vars

\* three chunks of a successful read of five elements, with different words
C15_Witness ==
    /\ ReadDone
    /\ retval = FINS_RETVAL_SUCCESS
    /\ args.num = 5
    /\ Len(received) = 3
    /\ args.type = FINS_DATA_TYPE_BCD16
    /\ data[2] = Stored(1234)
    /\ data[3] = Stored(INT16_MAX)
    /\ data[5] = Stored(1234)

(***************************************************************************)
(* C16: when the transaction fails, the bulk read and name set return the  *)
(* status XX_finslib_communicate gave, whichever it is; after a            *)
(* transaction that succeeded they return Success, or BodyTooShort when    *)
(* the body has not the expected length, and no other status.              *)
(***************************************************************************)
LastResponse == received[Len(received)]

ExpectedBodyLen == IF op = "read" THEN 2 + 2 * chunk_length ELSE 2

C16_FailureStatusUnchanged ==
    pc = "done" /\ received # << >> =>
        /\ LastResponse.retval # FINS_RETVAL_SUCCESS => retval = LastResponse.retval
        /\ LastResponse.retval = FINS_RETVAL_SUCCESS =>
              /\ retval \in { FINS_RETVAL_SUCCESS, FINS_RETVAL_BODY_TOO_SHORT }
              /\ retval = FINS_RETVAL_BODY_TOO_SHORT <=>
                    Len(LastResponse.body) # ExpectedBodyLen
        /\ \A i \in 1..(Len(received) - 1) : received[i].retval = FINS_RETVAL_SUCCESS

\* a remote end-code category on the second chunk of a read, and the same
\* one returned
C16_Witness ==
    /\ ReadDone
    /\ Len(received) = 2
    /\ LastResponse.retval = FINS_RETVAL_ADDRESS_RANGE_EXCEEDED
    /\ retval = FINS_RETVAL_ADDRESS_RANGE_EXCEEDED
    /\ data[1].w

(***************************************************************************)
(* C17: a bulk read of n > 0 elements terminates when each transaction     *)
(* returns: every iteration takes the chunk length, at least 1, off the    *)
(* remaining count, and a read that returns Success has made exactly       *)
(* ceil(n / max) transactions.                                             *)
(***************************************************************************)
InReadLoop == op = "read" /\ pc \in { "chunk", "await_read" }

RemainingDecreases ==
    pc = "await_read" /\ pc' \in { "chunk", "done" } /\ todo' # todo =>
        /\ chunk_length >= 1
        /\ todo' = todo - chunk_length
        /\ todo' < todo
        /\ todo' >= 0

TransactionsOnSuccess ==
    ReadDone /\ retval = FINS_RETVAL_SUCCESS /\ args.num > 0 =>
        /\ Len(sent) = (args.num + FINS_MAX_READ_WORDS_SYSWAY - 1) \div FINS_MAX_READ_WORDS_SYSWAY
        /\ Len(received) = Len(sent)
        /\ todo = 0

LoopProgress ==
    pc = "await_read" /\ pc' = "chunk" => todo' < todo /\ todo' > 0

C17_ReadTerminates ==
    /\ InReadLoop ~> ReadDone
    /\ [][RemainingDecreases /\ LoopProgress]_vars
    /\ [] TransactionsOnSuccess

\* the last of three transactions of a read of five has returned
C17_Witness ==
    /\ ReadDone
    /\ retval = FINS_RETVAL_SUCCESS
    /\ args.num = 5
    /\ todo = 0
    /\ Len(sent) = 3
    /\ sent[3].len = 1

(***************************************************************************)
(* C18: the checks of each operation have a fixed precedence and the first *)
(* one that fails decides the status.  Bulk read: zero count (Success),    *)
(* null session, null address, null output, not connected, unparsable      *)
(* address, area lookup failure.  Name set: null session, not connected,   *)
(* null name.  A call goes on to its transaction exactly when none fails.  *)
(***************************************************************************)
ReadFails ==
    << args.num = 0,
       args.sys = NULL,
       args.start.null,
       args.data = NULL,
       sockfd = INVALID_SOCKET,
       XX_finslib_decode_address(args.start).error,
       XX_finslib_search_area(XX_finslib_decode_address(args.start), 16, FI_RD) = NoArea >>

ReadStatuses ==
    << FINS_RETVAL_SUCCESS,
       FINS_RETVAL_NOT_INITIALIZED,
       FINS_RETVAL_NO_READ_ADDRESS,
       FINS_RETVAL_NO_DATA_BLOCK,
       FINS_RETVAL_NOT_CONNECTED,
       FINS_RETVAL_INVALID_READ_ADDRESS,
       FINS_RETVAL_INVALID_READ_AREA >>

NameFails == << args.sys = NULL, sockfd = INVALID_SOCKET, args.name.null >>

NameStatuses ==
    << FINS_RETVAL_NOT_INITIALIZED, FINS_RETVAL_NOT_CONNECTED, FINS_RETVAL_NO_DATA_BLOCK >>

AnyFails(fails) == \E k \in 1..Len(fails) : fails[k]

FirstFailing(fails) ==
    CHOOSE k \in 1..Len(fails) : fails[k] /\ \A j \in 1..(k - 1) : ~fails[j]

C18_FirstFailingCheckDecides ==
    /\ op = "read" =>
          IF AnyFails(ReadFails)
          THEN /\ pc = "done"
               /\ retval = ReadStatuses[FirstFailing(ReadFails)]
               /\ NoIO
          ELSE pc = "done" => sent # << >>
    /\ op = "name_set" =>
          IF AnyFails(NameFails)
          THEN /\ pc = "done"
               /\ retval = NameStatuses[FirstFailing(NameFails)]
               /\ NoIO
          ELSE sent # << >>

\* a null name on a session that is there but not connected: the connection
\* check comes first
C18_Witness ==
    /\ NameDone
    /\ NameFails = << FALSE, TRUE, TRUE >>
    /\ retval = FINS_RETVAL_NOT_CONNECTED

(***************************************************************************)
(* C19 as stated: the origin of every chunk of a read is at least 0 and    *)
(* below 65536, the two address bytes of the request give it exactly, and  *)
(* no two chunks of one read carry the same wire address.                  *)
(***************************************************************************)
WireAddress(cmd) == 256 * cmd.body[2] + cmd.body[3]

C19_OriginNeverWraps ==
    op = "read" =>
        /\ \A i \in 1..Len(sent) :
              /\ sent[i].origin >= 0
              /\ sent[i].origin < 65536
              /\ WireAddress(sent[i]) = sent[i].origin
        /\ \A i, j \in 1..Len(sent) :
              i # j => WireAddress(sent[i]) # WireAddress(sent[j])

(***************************************************************************)
(* C20: a response is accepted only when its body has exactly the expected *)
(* length, 2 + 2 * chunk_length for a chunk of a read and 2 for name set;  *)
(* a successful transaction with a longer body is rejected with            *)
(* BodyTooShort as one with a shorter body is.  At every iteration of the  *)
(* read offset + remaining = n, and only output positions below n are      *)
(* written, each from bytes that the response holds.                       *)
(***************************************************************************)
ReadStarted == op = "read" /\ (pc \in { "chunk", "await_read" } \/ sent # << >>)

C20_ExactLengthOnly ==
    /\ ReadStarted =>
          /\ offset + todo = args.num
          /\ offset = Requested(Accepted)
          /\ \A i \in 1..Accepted : Len(received[i].body) = 2 + 2 * sent[i].len
          /\ \A i \in 1..Len(data) : data[i].w <=> i <= offset
          /\ offset <= args.num
          /\ 2 * offset = Len(PayloadBytes(Accepted))
    /\ pc = "done" /\ received # << >> /\ LastResponse.retval = FINS_RETVAL_SUCCESS =>
          IF Len(LastResponse.body) = ExpectedBodyLen
          THEN retval = FINS_RETVAL_SUCCESS
          ELSE retval = FINS_RETVAL_BODY_TOO_SHORT

\* the second chunk answered with one word more than asked for
C20_Witness ==
    /\ ReadDone
    /\ Len(received) = 2
    /\ LastResponse.retval = FINS_RETVAL_SUCCESS
    /\ Len(LastResponse.body) = 2 + 2 * chunk_length + 2
    /\ retval = FINS_RETVAL_BODY_TOO_SHORT
    /\ offset = 2
    /\ ~data[3].w

====
